---- MODULE Spec2Model ----
(***************************************************************************)
(* A model of kiss_orm.go: the chunked query (Client.QueryChunks), the     *)
(* bulk operations (Client.Insert, Client.Delete, Client.Update), the      *)
(* struct/row codec (StructToMap, FillStructWith) and the package-level    *)
(* descriptor cache (tagInfoCache, getTagNames).                           *)
(*                                                                         *)
(* Rows of a cursor are numbered 1..nRows in cursor order; an element of   *)
(* the chunk slice is represented by the number of the row last scanned    *)
(* into it.  The contents of the chunk are read where the program hands    *)
(* them out: at each call of parser.ForEachChunk, right after              *)
(* sliceRef.Elem().Set(...).                                               *)
(***************************************************************************)
EXTENDS Integers, Sequences, FiniteSets, TLC

\* ---------------------------------------------------------------- bounds
MaxRows      == 7   \* rows a cursor yields: 0..MaxRows
MaxChunkSize == 3   \* parser.ChunkSize: 1..MaxChunkSize
MaxInitLen   == 2   \* length of *parser.Chunk when QueryChunks is called
MaxItems     == 3   \* items of one Insert / Delete / Update call
MaxSliceRows == 2   \* rows of one FillSliceWith call
MaxClients   == 3   \* Client values made by NewClient and ChangeTable
MaxFacadeItems == 1 \* items of a bulk call where several Clients exist
MaxCallers   == 2   \* goroutines that use the cache concurrently

VARIABLES
    \* Client.QueryChunks
    pc,          \* "idle" | "loop" (inside the for of line 100) | "returned"
    parser,      \* the ChunkParser argument: shape of Chunk, ChunkSize, callback behaviour
    cursor,      \* what the collaborator will do: rows it yields, failures it produces
    rowsRead,    \* rows.Next() calls that returned true
    slice,       \* the local reflect.Value `slice`
    target,      \* *parser.Chunk, what sliceRef.Elem() refers to
    idx,         \* the local `idx`
    calls,       \* the value of *parser.Chunk at each ForEachChunk invocation
    opened,      \* cursors obtained from it.Rows()
    closed,      \* rows.Close() calls
    queries,     \* c.db.Raw(...) calls
    err,         \* the error QueryChunks returned
    \* Insert / Delete / Update
    bulk,        \* the last bulk call: operation, items, collaborator failures
    dbCalls,     \* the collaborator calls it made, in order
    bulkErr,     \* the error it returned
    \* NewClient / ChangeTable
    clients,     \* the Client values there are, the first being the original
    made,        \* how each of them was made: by which call, from which Client, with which name
    \* concurrent callers of the cache lookup
    callers,     \* per goroutine: where it is in lines 226-230, its type t and its info
    storing,     \* the goroutines in the middle of the assignment tagInfoCache[t] = info
    fatal,       \* the runtime has thrown a fatal error and ended the process
    \* codec and cache
    tagInfoCache, \* reflect.Type -> structInfo
    scans,        \* getTagNames runs per type
    enc,          \* the last StructToMap call
    dec,          \* the last FillStructWith call
    fill          \* the last FillSliceWith call

chunkVars == <<pc, parser, cursor, rowsRead, slice, target, idx, calls,
               opened, closed, queries, err>>
bulkVars  == <<bulk, dbCalls, bulkErr>>
codecVars == <<tagInfoCache, scans, enc, dec, fill>>
facadeVars == <<clients, made>>
raceVars  == <<callers, storing, fatal>>
vars      == <<chunkVars, bulkVars, codecVars, facadeVars, raceVars>>

\* ------------------------------------------------------------- helpers
RECURSIVE Concat(_)
Concat(ss) == IF ss = <<>> THEN <<>> ELSE Head(ss) \o Concat(Tail(ss))

\* The rows a..b of the cursor, in cursor order.
RowsFromTo(a, b) == [i \in 1..(IF b >= a THEN b - a + 1 ELSE 0) |-> a + i - 1]

\* ------------------------------------------------- Client.QueryChunks
NoError == "nil"

\* The kinds of value a caller can pass as parser.Chunk.
ChunkShapes == {"*[]struct", "*[]*struct", "[]struct", "*struct", "*[]int"}

\* decodeAsSliceOfStructs: the error and isSliceOfPtrs it returns for a chunk.
decodeAsSliceOfStructs(chunk) ==
    CASE chunk = "[]struct"   -> [err |-> "FillListWith: expected input to be a pointer to struct",
                                  isSliceOfPtrs |-> FALSE]
      [] chunk = "*struct"    -> [err |-> "FillListWith: expected input kind to be a slice",
                                  isSliceOfPtrs |-> FALSE]
      [] chunk = "*[]int"     -> [err |-> "FillListWith: expected input to be a slice of structs",
                                  isSliceOfPtrs |-> FALSE]
      [] chunk = "*[]*struct" -> [err |-> NoError, isSliceOfPtrs |-> TRUE]
      [] chunk = "*[]struct"  -> [err |-> NoError, isSliceOfPtrs |-> FALSE]

\* reflect.New(structType): an element no row has been scanned into.
NewElem == 0

\* An element the caller left in the chunk before the call, at position i.
OldElem(i) == 0 - i

InitTargets == {[i \in 1..n |-> OldElem(i)] : n \in 0..MaxInitLen}

Parsers ==
    {[Chunk |-> sh, init |-> t, ChunkSize |-> k] :
        sh \in {"*[]struct", "*[]*struct"}, t \in InitTargets, k \in 1..MaxChunkSize}
    \cup
    {[Chunk |-> sh, init |-> <<>>, ChunkSize |-> k] :
        sh \in ChunkShapes \ {"*[]struct", "*[]*struct"}, k \in 1..MaxChunkSize}

\* What the collaborator does with the query: Raw fails, Rows fails, or a
\* cursor of nRows rows is returned.
Cursors ==
    {[rawErr |-> "Raw", rowsErr |-> NoError, nRows |-> 0],
     [rawErr |-> NoError, rowsErr |-> "Rows", nRows |-> 0]}
    \cup {[rawErr |-> NoError, rowsErr |-> NoError, nRows |-> n] : n \in 0..MaxRows}

\* Line 91, `defer rows.Close()`, as it runs when the function returns.
RowsCloseLeak(n) == n
RowsClose(n) == n + 1

\* Lines 101-108: the slice grows by one new element when idx is past its end.
Grow(s, i) == IF Len(s) <= i THEN Append(s, NewElem) ELSE s

\* Line 115: the row just scanned is the last of a chunk.
ChunkIsFull(i, chunkSize) == i = chunkSize - 1

\* Line 116 followed by the post statement of the for of line 100.
IdxAfterChunk == 0 + 1

\* Line 127: the condition of the last call of ForEachChunk.
HasPendingRowsAlways(i) == i >= 0
HasPendingRows(i) == i > 0

\* A return of QueryChunks with error e; the deferred Close runs when a
\* cursor was obtained.
Return(e, hasCursor) ==
    /\ pc' = "returned"
    /\ err' = e
    /\ closed' = IF hasCursor THEN RowsClose(closed) ELSE closed

\* Lines 82-99: the query, the cursor, the shape of the chunk.
QueryChunksCall ==
    /\ pc = "idle"
    /\ \E p \in Parsers, c \in Cursors :
        LET d == decodeAsSliceOfStructs(p.Chunk) IN
        /\ parser' = p
        /\ cursor' = c
        /\ target' = p.init
        /\ queries' = queries + 1
        /\ calls' = <<>>
        /\ rowsRead' = 0
        /\ idx' = 0
        /\ IF c.rawErr # NoError
           THEN /\ Return(c.rawErr, FALSE)
                /\ opened' = opened
                /\ slice' = <<>>
           ELSE IF c.rowsErr # NoError
           THEN /\ Return(c.rowsErr, FALSE)
                /\ opened' = opened
                /\ slice' = <<>>
           ELSE /\ opened' = opened + 1
                /\ IF d.err # NoError
                   THEN /\ Return(d.err, TRUE)
                        /\ slice' = <<>>
                   ELSE /\ slice' = p.init
                        /\ pc' = "loop"
                        /\ UNCHANGED <<err, closed>>
    /\ UNCHANGED <<bulkVars, codecVars, facadeVars, raceVars>>

\* Lines 100-123: one iteration of the loop, rows.Next() having returned true.
QueryChunksRow ==
    /\ pc = "loop"
    /\ rowsRead < cursor.nRows
    /\ rowsRead' = rowsRead + 1
    /\ \E scanErr \in {NoError, "ScanRows"}, cbErr \in {NoError, "ForEachChunk"} :
        LET grown   == Grow(slice, idx)
            scanned == [grown EXCEPT ![idx + 1] = rowsRead + 1]
        IN  IF scanErr # NoError
            THEN /\ Return(scanErr, TRUE)
                 /\ slice' = grown
                 /\ UNCHANGED <<target, idx, calls>>
            ELSE IF ChunkIsFull(idx, parser.ChunkSize)
            THEN /\ slice' = scanned
                 /\ target' = scanned
                 /\ calls' = Append(calls, [buf |-> scanned, read |-> rowsRead + 1])
                 /\ IF cbErr # NoError
                    THEN /\ Return(cbErr, TRUE)
                         /\ idx' = 0
                    ELSE /\ idx' = IdxAfterChunk
                         /\ UNCHANGED <<pc, err, closed>>
            ELSE /\ slice' = scanned
                 /\ idx' = idx + 1
                 /\ UNCHANGED <<target, calls, pc, err, closed>>
    /\ UNCHANGED <<parser, cursor, opened, queries, bulkVars, codecVars, facadeVars, raceVars>>

\* Lines 125-135: rows.Next() returned false.
QueryChunksDone ==
    /\ pc = "loop"
    /\ rowsRead = cursor.nRows
    /\ IF HasPendingRows(idx)
       THEN \E cbErr \in {NoError, "ForEachChunk"} :
                /\ target' = SubSeq(slice, 1, idx)
                /\ calls' = Append(calls, [buf |-> SubSeq(slice, 1, idx), read |-> rowsRead])
                /\ Return(cbErr, TRUE)
       ELSE /\ Return(NoError, TRUE)
            /\ UNCHANGED <<target, calls>>
    /\ UNCHANGED <<parser, cursor, rowsRead, slice, idx, opened, queries,
                   bulkVars, codecVars, facadeVars, raceVars>>

InitChunks ==
    /\ pc = "idle"
    /\ parser = [Chunk |-> "*[]struct", init |-> <<>>, ChunkSize |-> 1]
    /\ cursor = [rawErr |-> NoError, rowsErr |-> NoError, nRows |-> 0]
    /\ rowsRead = 0
    /\ slice = <<>>
    /\ target = <<>>
    /\ idx = 0
    /\ calls = <<>>
    /\ opened = 0
    /\ closed = 0
    /\ queries = 0
    /\ err = NoError

\* ------------------------------------------------ record types, values
\* A value: its kind, whether it is a pointer, whether the pointer is nil,
\* and the int or the string it holds (or points to).
IntV(n)    == [kind |-> "int",    ptr |-> FALSE, nil |-> FALSE, i |-> n, s |-> ""]
StrV(x)    == [kind |-> "string", ptr |-> FALSE, nil |-> FALSE, i |-> 0, s |-> x]
PtrTo(v)   == [v EXCEPT !.ptr = TRUE]
NilPtr(k)  == [kind |-> k, ptr |-> TRUE, nil |-> TRUE, i |-> 0, s |-> ""]

\* The nil interface value, which a row can hold for a column.
NilValue   == [kind |-> "nil", ptr |-> FALSE, nil |-> TRUE, i |-> 0, s |-> ""]

\* field.Elem() of line 241: what a non-nil pointer points to.
Elem(v)    == [v EXCEPT !.ptr = FALSE]

\* reflect.Type of a value or of a field.
TypeOf(v)  == [kind |-> v.kind, ptr |-> v.ptr]

\* The struct types of the model, each a sequence of fields with the value
\* of its `gorm` tag ("" when the field has none).
\*   type User  struct { ID int `gorm:"id"`; Name string `gorm:"name"`; Email *string `gorm:"email"` }
\*   type Note  struct { ID int `gorm:"id"`; Text string `gorm:"text"`; Hits int }
\*   type Empty struct {}
StructTypes == {"User", "Note", "Empty"}

Fields(T) ==
    CASE T = "User" -> << [name |-> "ID",    tag |-> "id",    kind |-> "int",    ptr |-> FALSE],
                          [name |-> "Name",  tag |-> "name",  kind |-> "string", ptr |-> FALSE],
                          [name |-> "Email", tag |-> "email", kind |-> "string", ptr |-> TRUE] >>
      [] T = "Note" -> << [name |-> "ID",    tag |-> "id",    kind |-> "int",    ptr |-> FALSE],
                          [name |-> "Text",  tag |-> "text",  kind |-> "string", ptr |-> FALSE],
                          [name |-> "Hits",  tag |-> "",      kind |-> "int",    ptr |-> FALSE] >>
      [] T = "Empty" -> << >>

NumField(T) == Len(Fields(T))

\* The values a field of the model can hold.
FieldValues(f) ==
    LET base == IF f.kind = "int" THEN {IntV(0), IntV(1)} ELSE {StrV(""), StrV("Ann")}
    IN  IF f.ptr THEN {NilPtr(f.kind)} \cup {PtrTo(v) : v \in base} ELSE base

ZeroValue(f) ==
    IF f.ptr THEN NilPtr(f.kind) ELSE IF f.kind = "int" THEN IntV(0) ELSE StrV("")

\* All the struct values of type T, and its zero value.
StructValues(T) ==
    {fs \in [1..NumField(T) -> UNION {FieldValues(Fields(T)[j]) : j \in 1..NumField(T)}] :
        \A j \in 1..NumField(T) : fs[j] \in FieldValues(Fields(T)[j])}

ZeroStruct(T) == [j \in 1..NumField(T) |-> ZeroValue(Fields(T)[j])]

\* What a caller can pass as interface{}: a struct, a pointer to a struct,
\* or something that is neither.
Struct(T, fs)    == [kind |-> "struct", type |-> T, fields |-> fs]
StructPtr(T, fs) == [kind |-> "ptr",    type |-> T, fields |-> fs]
NotAStruct       == [kind |-> "other",  type |-> "int", fields |-> <<>>]

\* ------------------------------------------------- maps with zero values
EmptyMap == [x \in {} |-> 0]

MapPut(m, k, v) == [x \in DOMAIN m \cup {k} |-> IF x = k THEN v ELSE m[x]]

MapDelete(m, k) == [x \in DOMAIN m \ {k} |-> m[x]]

\* ---------------------------------------------- tagInfoCache, getTagNames
\* getTagNames, lines 255-270: fields with an empty tag are skipped; for a
\* tag carried by several fields the last one is kept in Index.
RECURSIVE getTagNamesFrom(_, _, _)
getTagNamesFrom(T, i, info) ==
    IF i >= NumField(T) THEN info
    ELSE LET name == Fields(T)[i + 1].tag IN
         IF name = "" THEN getTagNamesFrom(T, i + 1, info)
         ELSE getTagNamesFrom(T, i + 1,
                  [Names |-> MapPut(info.Names, i, name),
                   Index |-> MapPut(info.Index, name, i)])

getTagNames(T) == getTagNamesFrom(T, 0, [Names |-> EmptyMap, Index |-> EmptyMap])

\* info.Names[i] and info.Index[colName]: a Go map gives the zero value for
\* a key it does not hold.
NamesAt(info, i)   == IF i \in DOMAIN info.Names THEN info.Names[i] ELSE ""
IndexAt(info, col) == IF col \in DOMAIN info.Index THEN info.Index[col] ELSE 0

\* Lines 226-230 (and 299-303, 336-340): the descriptor of T, the cache and
\* the scan counts after the lookup.
CacheLookupRescan(T, cache, count) ==
    [info  |-> getTagNames(T),
     cache |-> MapPut(cache, T, getTagNames(T)),
     scans |-> MapPut(count, T, IF T \in DOMAIN count THEN 2 ELSE 1)]

CacheLookup(T, cache, count) ==
    IF T \in DOMAIN cache
    THEN [info |-> cache[T], cache |-> cache, scans |-> count]
    ELSE [info  |-> getTagNames(T),
          cache |-> MapPut(cache, T, getTagNames(T)),
          scans |-> MapPut(count, T, (IF T \in DOMAIN count THEN count[T] ELSE 0) + 1)]

\* --------------------------------------------------------- StructToMap
\* Lines 232-245: the fields in order; a nil pointer is skipped, a non-nil
\* pointer is dereferenced, the value goes under info.Names[i].
RECURSIVE StructToMapFromKeepNil(_, _, _, _)
StructToMapFromKeepNil(fs, info, i, m) ==
    IF i >= Len(fs) THEN m
    ELSE LET field == fs[i + 1] IN
         StructToMapFromKeepNil(fs, info, i + 1,
             MapPut(m, NamesAt(info, i),
                    IF field.ptr /\ ~field.nil THEN Elem(field) ELSE field))

RECURSIVE StructToMapFrom(_, _, _, _)
StructToMapFrom(fs, info, i, m) ==
    IF i >= Len(fs) THEN m
    ELSE LET field == fs[i + 1] IN
         IF field.ptr /\ field.nil
         THEN StructToMapFrom(fs, info, i + 1, m)
         ELSE StructToMapFrom(fs, info, i + 1,
                  MapPut(m, NamesAt(info, i), IF field.ptr THEN Elem(field) ELSE field))

StructToMapError == "input must be a struct or struct pointer"

\* StructToMap(obj) with the cache as it is: the map, the error, the cache after.
StructToMap(obj, cache, count) ==
    IF obj.kind = "other"
    THEN [m |-> EmptyMap, err |-> StructToMapError, cache |-> cache, scans |-> count]
    ELSE LET d == CacheLookup(obj.type, cache, count) IN
         [m     |-> StructToMapFrom(obj.fields, d.info, 0, EmptyMap),
          err   |-> NoError,
          cache |-> d.cache,
          scans |-> d.scans]

\* ------------------------------------------------------ FillStructWith
\* reflect's Type.ConvertibleTo for the types of the model: identical types
\* convert, an int converts to a string, a string does not convert to an
\* int, and nothing converts between a pointer type and another type.
ConvertibleTo(src, dst) ==
    \/ src = dst
    \/ ~src.ptr /\ ~dst.ptr /\ src.kind = "int" /\ dst.kind = "string"

\* string(rune(n)), written as the name of the code point.
RuneString(n) == "U+" \o ToString(n)

\* reflect's Value.Convert, for convertible types.
Convert(v, dst) ==
    IF TypeOf(v) = dst THEN v ELSE StrV(RuneString(v.i))

TypeMismatch == "FillStructWith: cannot convert atribute"
FieldPanic   == "panic: reflect: Field index out of range"
ValuePanic   == "panic: reflect: call of reflect.Value.Type on zero Value"

\* Lines 305-319: the columns of the row in the order the map iteration
\* gives them; the entity as it is when the loop ends or returns.
RECURSIVE FillFromSkipMismatch(_, _, _, _, _, _)
FillFromSkipMismatch(T, fs, info, dbRow, order, n) ==
    IF n > Len(order) THEN [err |-> NoError, fields |-> fs]
    ELSE LET colName   == order[n]
             attrValue == dbRow[colName]
             fi        == IndexAt(info, colName)
         IN  IF fi >= NumField(T) THEN [err |-> FieldPanic, fields |-> fs]
             ELSE IF attrValue = NilValue THEN [err |-> ValuePanic, fields |-> fs]
             ELSE LET fieldType == [kind |-> Fields(T)[fi + 1].kind, ptr |-> Fields(T)[fi + 1].ptr] IN
                  IF ~ConvertibleTo(TypeOf(attrValue), fieldType)
                  THEN FillFromSkipMismatch(T, fs, info, dbRow, order, n + 1)
                  ELSE FillFromSkipMismatch(T, [fs EXCEPT ![fi + 1] = Convert(attrValue, fieldType)],
                                            info, dbRow, order, n + 1)

RECURSIVE FillFrom(_, _, _, _, _, _)
FillFrom(T, fs, info, dbRow, order, n) ==
    IF n > Len(order) THEN [err |-> NoError, fields |-> fs]
    ELSE LET colName   == order[n]
             attrValue == dbRow[colName]
             fi        == IndexAt(info, colName)
         IN  IF fi >= NumField(T) THEN [err |-> FieldPanic, fields |-> fs]
             ELSE IF attrValue = NilValue THEN [err |-> ValuePanic, fields |-> fs]
             ELSE LET fieldType == [kind |-> Fields(T)[fi + 1].kind, ptr |-> Fields(T)[fi + 1].ptr] IN
                  IF ~ConvertibleTo(TypeOf(attrValue), fieldType)
                  THEN [err |-> TypeMismatch, fields |-> fs]
                  ELSE FillFrom(T, [fs EXCEPT ![fi + 1] = Convert(attrValue, fieldType)],
                                info, dbRow, order, n + 1)

FillStructWithError     == "FillStructWith: expected input to be a pointer to struct"
FillStructWithKindError == "FillStructWith: expected input kind to be a struct"

\* A pointer to a pointer to a struct, what FillSliceWith passes for an
\* element of a slice of struct pointers.
StructPtrPtr(T, fs) == [kind |-> "ptrptr", type |-> T, fields |-> fs]

FillStructWithFromZero(entity, dbRow, order, cache, count) ==
    IF entity.kind # "ptr"
    THEN [fields |-> entity.fields, err |-> FillStructWithError, cache |-> cache, scans |-> count]
    ELSE LET d == CacheLookup(entity.type, cache, count)
             r == FillFrom(entity.type, ZeroStruct(entity.type), d.info, dbRow, order, 1)
         IN  [fields |-> r.fields, err |-> r.err, cache |-> d.cache, scans |-> d.scans]

\* FillStructWith(entity, dbRow), the map being iterated in `order`.
FillStructWith(entity, dbRow, order, cache, count) ==
    IF entity.kind = "ptrptr"
    THEN [fields |-> entity.fields, err |-> FillStructWithKindError, cache |-> cache, scans |-> count]
    ELSE IF entity.kind # "ptr"
    THEN [fields |-> entity.fields, err |-> FillStructWithError, cache |-> cache, scans |-> count]
    ELSE LET d == CacheLookup(entity.type, cache, count)
             r == FillFrom(entity.type, entity.fields, d.info, dbRow, order, 1)
         IN  [fields |-> r.fields, err |-> r.err, cache |-> d.cache, scans |-> d.scans]

\* The orders in which a map with key set S can be iterated.
Orders(S) ==
    {o \in [1..Cardinality(S) -> S] : \A a, b \in 1..Cardinality(S) : o[a] = o[b] => a = b}

\* ------------------------------------------------------- FillSliceWith
\* The only order in which a map of at most one key is iterated.
OnlyOrder(row) == CHOOSE o \in Orders(DOMAIN row) : TRUE

\* Lines 342-357: the rows in order, each decoded into the element at its
\* position, the slice growing by a new element when it is too short.
RECURSIVE FillSliceFrom(_, _, _, _, _, _, _)
FillSliceFrom(T, isSliceOfPtrs, s, dbRows, n, cache, count) ==
    IF n > Len(dbRows) THEN [err |-> NoError, slice |-> s, cache |-> cache, scans |-> count]
    ELSE LET grown  == IF Len(s) <= n - 1 THEN Append(s, ZeroStruct(T)) ELSE s
             entity == IF isSliceOfPtrs THEN StructPtrPtr(T, grown[n]) ELSE StructPtr(T, grown[n])
             r      == FillStructWith(entity, dbRows[n], OnlyOrder(dbRows[n]), cache, count)
         IN  IF r.err # NoError
             THEN [err |-> r.err, slice |-> [grown EXCEPT ![n] = r.fields],
                   cache |-> r.cache, scans |-> r.scans]
             ELSE FillSliceFrom(T, isSliceOfPtrs, [grown EXCEPT ![n] = r.fields],
                                dbRows, n + 1, r.cache, r.scans)

\* FillSliceWith(entities, dbRows) on an empty slice of T of the given shape:
\* the error, the slice the caller sees afterwards (line 359 is not reached
\* on an error), the cache after.
FillSliceWith(shape, T, dbRows, cache, count) ==
    LET d == decodeAsSliceOfStructs(shape) IN
    IF d.err # NoError
    THEN [err |-> d.err, after |-> <<>>, cache |-> cache, scans |-> count]
    ELSE LET c == CacheLookup(T, cache, count)
             r == FillSliceFrom(T, d.isSliceOfPtrs, <<>>, dbRows, 1, c.cache, c.scans)
         IN  [err   |-> r.err,
              after |-> IF r.err = NoError THEN r.slice ELSE <<>>,
              cache |-> r.cache,
              scans |-> r.scans]

\* ------------------------------------------- calls of the codec functions
NoEnc == [done |-> FALSE, obj |-> NotAStruct, m |-> EmptyMap, err |-> NoError]
NoDec == [done |-> FALSE, entity |-> NotAStruct, row |-> EmptyMap, order |-> <<>>,
          err |-> NoError, after |-> <<>>]
NoFill == [done |-> FALSE, shape |-> "*[]struct", type |-> "Empty", rows |-> <<>>,
           err |-> NoError, after |-> <<>>]

\* The arguments StructToMap is called with: every struct value of the
\* model's types, two pointers to structs, and a value that is no struct.
AllObjects ==
    UNION {{Struct(T, fs) : fs \in StructValues(T)} : T \in StructTypes}
    \cup {StructPtr("User", <<IntV(1), StrV("Ann"), PtrTo(StrV("Ann"))>>),
          StructPtr("Note", <<IntV(1), StrV("Ann"), IntV(1)>>),
          NotAStruct}

\* The rows FillStructWith is given: up to two columns, "age" being a column
\* of no type of the model, holding an int or a string, and the rows of one
\* column holding a pointer to a string or nil.
Columns   == {"id", "name", "email", "age"}
RowValues == {IntV(1), StrV("Ann")}
Rows      ==
    UNION {[S -> RowValues] : S \in {S \in SUBSET Columns : Cardinality(S) <= 2}}
    \cup {[c \in {col} |-> PtrTo(StrV("Ann"))] : col \in Columns}
    \cup {[c \in {col} |-> NilValue] : col \in Columns}

\* The calls of FillStructWith: a zero or a populated User with every row,
\* the other entities (one of them passed by value) with the rows of at
\* most one column.
DecodeInputs ==
    ({StructPtr("User", ZeroStruct("User")),
      StructPtr("User", <<IntV(0), StrV("Bob"), PtrTo(StrV("Bob"))>>)} \X Rows)
    \cup
    ({StructPtr("Note", ZeroStruct("Note")),
      StructPtr("Empty", ZeroStruct("Empty")),
      Struct("User", ZeroStruct("User"))} \X {r \in Rows : Cardinality(DOMAIN r) <= 1})

\* A call of StructToMap.
StructToMapCall ==
    /\ \E obj \in AllObjects :
        LET r == StructToMap(obj, tagInfoCache, scans) IN
        /\ enc' = [done |-> TRUE, obj |-> obj, m |-> r.m, err |-> r.err]
        /\ tagInfoCache' = r.cache
        /\ scans' = r.scans
    /\ dec' = NoDec
    /\ fill' = NoFill
    /\ UNCHANGED <<chunkVars, bulkVars, facadeVars, raceVars>>

\* The record of a call of FillStructWith.
Decoded(entity, dbRow, order, r) ==
    [done |-> TRUE, entity |-> entity, row |-> dbRow, order |-> order,
     err |-> r.err, after |-> r.fields]

\* A call of FillStructWith on a row of the caller's making.
FillStructWithCall ==
    /\ \E in \in DecodeInputs :
        \E order \in Orders(DOMAIN in[2]) :
            LET entity == in[1]
                dbRow  == in[2]
                r      == FillStructWith(entity, dbRow, order, tagInfoCache, scans)
            IN
            /\ dec' = Decoded(entity, dbRow, order, r)
            /\ tagInfoCache' = r.cache
            /\ scans' = r.scans
    /\ enc' = NoEnc
    /\ fill' = NoFill
    /\ UNCHANGED <<chunkVars, bulkVars, facadeVars, raceVars>>

\* A call of FillStructWith on the map the last StructToMap returned, into a
\* new zero struct of the same type.
FillStructWithEncoded ==
    /\ enc.done
    /\ enc.err = NoError
    /\ \E order \in Orders(DOMAIN enc.m) :
        LET entity == StructPtr(enc.obj.type, ZeroStruct(enc.obj.type))
            r      == FillStructWith(entity, enc.m, order, tagInfoCache, scans)
        IN  /\ dec' = Decoded(entity, enc.m, order, r)
            /\ tagInfoCache' = r.cache
            /\ scans' = r.scans
    /\ UNCHANGED <<enc, fill, chunkVars, bulkVars, facadeVars, raceVars>>

\* The slices and rows FillSliceWith is called with.
SliceInputs ==
    {<<"*[]struct", "User">>, <<"*[]struct", "Note">>, <<"*[]*struct", "User">>,
     <<"[]struct", "User">>}

SliceRows == {[c \in {"id"} |-> IntV(1)], [c \in {"id"} |-> StrV("Ann")]}

\* A call of FillSliceWith.
FillSliceWithCall ==
    /\ \E in \in SliceInputs, n \in 0..MaxSliceRows :
        \E dbRows \in [1..n -> SliceRows] :
            LET r == FillSliceWith(in[1], in[2], dbRows, tagInfoCache, scans) IN
            /\ fill' = [done |-> TRUE, shape |-> in[1], type |-> in[2], rows |-> dbRows,
                        err |-> r.err, after |-> r.after]
            /\ tagInfoCache' = r.cache
            /\ scans' = r.scans
    /\ enc' = NoEnc
    /\ dec' = NoDec
    /\ UNCHANGED <<chunkVars, bulkVars, facadeVars, raceVars>>

\* ------------------------------------------- Insert, Delete, Update
\* The error of the collaborator's n-th call of a bulk operation.
DbError(n) == "db error on item " \o ToString(n)

DbCall(table, op, arg, row) == [table |-> table, op |-> op, arg |-> arg, row |-> row]

\* Lines 150-155 and 165-170: one collaborator call per item, in order; the
\* first error is returned.
RECURSIVE EachItemNoHalt(_, _, _, _, _, _)
EachItemNoHalt(table, op, items, fails, n, log) ==
    IF n > Len(items) THEN [err |-> NoError, calls |-> log]
    ELSE LET rest == EachItemNoHalt(table, op, items, fails, n + 1,
                                    Append(log, DbCall(table, op, items[n], EmptyMap)))
         IN  IF n \in fails /\ rest.err = NoError
             THEN [err |-> DbError(n), calls |-> rest.calls]
             ELSE rest

RECURSIVE EachItem(_, _, _, _, _, _)
EachItem(table, op, items, fails, n, log) ==
    IF n > Len(items) THEN [err |-> NoError, calls |-> log]
    ELSE LET log2 == Append(log, DbCall(table, op, items[n], EmptyMap)) IN
         IF n \in fails
         THEN [err |-> DbError(n), calls |-> log2]
         ELSE EachItem(table, op, items, fails, n + 1, log2)

\* Client.Insert, lines 142-158.
Insert(c, items, fails) ==
    IF Len(items) = 0 THEN [err |-> NoError, calls |-> <<>>]
    ELSE EachItem(c.tableName, "Create", items, fails, 1, <<>>)

\* Client.Delete, lines 161-173.
Delete(c, ids, fails) == EachItem(c.tableName, "Delete", ids, fails, 1, <<>>)

\* Lines 183-187: the row Update hands to Updates for a map m of StructToMap.
UpdateRowKeepId(m) == m
UpdateRow(m) == MapDelete(m, "id")

\* Client.Update, lines 178-195.
RECURSIVE UpdateFrom(_, _, _, _, _, _, _)
UpdateFrom(table, items, fails, n, log, cache, count) ==
    IF n > Len(items)
    THEN [err |-> NoError, calls |-> log, cache |-> cache, scans |-> count]
    ELSE LET r == StructToMap(items[n], cache, count) IN
         IF r.err # NoError
         THEN [err |-> r.err, calls |-> log, cache |-> r.cache, scans |-> r.scans]
         ELSE LET log2 == Append(log, DbCall(table, "Updates", items[n], UpdateRow(r.m))) IN
              IF n \in fails
              THEN [err |-> DbError(n), calls |-> log2, cache |-> r.cache, scans |-> r.scans]
              ELSE UpdateFrom(table, items, fails, n + 1, log2, r.cache, r.scans)

Update(c, items, fails, cache, count) ==
    UpdateFrom(c.tableName, items, fails, 1, <<>>, cache, count)

\* The arguments of the bulk calls of the model.
SeqsUpTo(S, n) == UNION {[1..m -> S] : m \in 0..n}

InsertItems == {"a", "b"}

UpdateItems ==
    {Struct("User", <<IntV(1), StrV("Ann"), NilPtr("string")>>),
     StructPtr("User", <<IntV(1), StrV("Ann"), PtrTo(StrV("Ann"))>>),
     Struct("Note", <<IntV(1), StrV("Ann"), IntV(1)>>),
     NotAStruct}

\* A call of Insert on one of the Clients, with at most maxItems items.
InsertCallUpTo(maxItems) ==
    /\ bulk.op = "none"
    /\ \E ci \in 1..Len(clients), items \in SeqsUpTo(InsertItems, maxItems) :
        \E fails \in SUBSET (1..Len(items)) :
            LET r == Insert(clients[ci], items, fails) IN
            /\ bulk' = [op |-> "Insert", client |-> ci, items |-> items, fails |-> fails]
            /\ dbCalls' = r.calls
            /\ bulkErr' = r.err
    /\ UNCHANGED <<chunkVars, codecVars, facadeVars, raceVars>>

DeleteCallUpTo(maxItems) ==
    /\ bulk.op = "none"
    /\ \E ci \in 1..Len(clients), ids \in SeqsUpTo(InsertItems, maxItems) :
        \E fails \in SUBSET (1..Len(ids)) :
            LET r == Delete(clients[ci], ids, fails) IN
            /\ bulk' = [op |-> "Delete", client |-> ci, items |-> ids, fails |-> fails]
            /\ dbCalls' = r.calls
            /\ bulkErr' = r.err
    /\ UNCHANGED <<chunkVars, codecVars, facadeVars, raceVars>>

UpdateCallUpTo(maxItems) ==
    /\ bulk.op = "none"
    /\ \E ci \in 1..Len(clients), items \in SeqsUpTo(UpdateItems, maxItems) :
        \E fails \in SUBSET (1..Len(items)) :
            LET r == Update(clients[ci], items, fails, tagInfoCache, scans) IN
            /\ bulk' = [op |-> "Update", client |-> ci, items |-> items, fails |-> fails]
            /\ dbCalls' = r.calls
            /\ bulkErr' = r.err
            /\ tagInfoCache' = r.cache
            /\ scans' = r.scans
    /\ UNCHANGED <<chunkVars, enc, dec, fill, facadeVars, raceVars>>

InsertCall == InsertCallUpTo(MaxItems)

DeleteCall == DeleteCallUpTo(MaxItems)

UpdateCall == UpdateCallUpTo(MaxItems)

\* ------------------------------------------- NewClient, ChangeTable
TableNames == {"users", "posts"}

\* The Client NewClient returns when gorm.Open and Ping succeed, on the
\* connection it opened (lines 34-37).
NewClient(db, tableName) == [db |-> db, tableName |-> tableName]

\* Client.ChangeTable, lines 41-46.
ChangeTableKeepName(c, tableName) == [db |-> c.db, tableName |-> c.tableName]
ChangeTable(c, tableName) == [db |-> c.db, tableName |-> tableName]

\* The connections opened so far.
Connections == {clients[i].db : i \in 1..Len(clients)}

\* A call of NewClient: it fails (Open or Ping) and returns no Client, or
\* returns a Client on a new connection.
NewClientCall ==
    /\ Len(clients) < MaxClients
    /\ \E tableName \in TableNames, ok \in BOOLEAN :
        IF ok
        THEN /\ clients' = Append(clients, NewClient(Cardinality(Connections) + 1, tableName))
             /\ made' = Append(made, [by |-> "NewClient", parent |-> 0, name |-> tableName])
        ELSE UNCHANGED facadeVars
    /\ UNCHANGED <<chunkVars, bulkVars, codecVars, raceVars>>

\* A call of ChangeTable on one of the Clients.
ChangeTableCall ==
    /\ Len(clients) < MaxClients
    /\ \E ci \in 1..Len(clients), tableName \in TableNames :
        /\ clients' = Append(clients, ChangeTable(clients[ci], tableName))
        /\ made' = Append(made, [by |-> "ChangeTable", parent |-> ci, name |-> tableName])
    /\ UNCHANGED <<chunkVars, bulkVars, codecVars, raceVars>>

\* ------------------------------------- concurrent use of tagInfoCache
\* tagInfoCache is a package-level Go map that StructToMap, FillStructWith
\* and FillSliceWith read (line 226, 299, 336) and write (line 229, 302,
\* 339) with no lock.  Goroutines that call them run these steps
\* interleaved.  A map read or write that overlaps a write of another
\* goroutine is a data race: the runtime may detect it and throw "fatal
\* error: concurrent map read and map write" or "concurrent map writes",
\* which ends the process, or may not detect it.
Callers == 1..MaxCallers

NoInfo == [Names |-> EmptyMap, Index |-> EmptyMap]

\* A goroutine calls one of the three functions with a value of type t and
\* arrives at the lookup.
CallerStart ==
    /\ ~fatal
    /\ \E p \in Callers, t \in StructTypes :
        /\ callers[p].at = "idle"
        /\ callers' = [callers EXCEPT ![p] = [at |-> "lookup", t |-> t, info |-> NoInfo]]
    /\ UNCHANGED <<storing, fatal, chunkVars, bulkVars, codecVars, facadeVars>>

\* info, found := tagInfoCache[t]   (line 226)
CallerLookup ==
    /\ ~fatal
    /\ \E p \in Callers :
        /\ callers[p].at = "lookup"
        /\ \/ /\ storing # {}
              /\ fatal' = TRUE
              /\ UNCHANGED callers
           \/ /\ fatal' = fatal
              /\ callers' = [callers EXCEPT ![p] =
                    IF callers[p].t \in DOMAIN tagInfoCache
                    THEN [at |-> "done", t |-> callers[p].t, info |-> tagInfoCache[callers[p].t]]
                    ELSE [at |-> "scan", t |-> callers[p].t, info |-> NoInfo]]
    /\ UNCHANGED <<storing, chunkVars, bulkVars, codecVars, facadeVars>>

\* info = getTagNames(t)   (line 228)
CallerScan ==
    /\ ~fatal
    /\ \E p \in Callers :
        /\ callers[p].at = "scan"
        /\ callers' = [callers EXCEPT ![p] =
                [at |-> "store", t |-> callers[p].t, info |-> getTagNames(callers[p].t)]]
        /\ scans' = MapPut(scans, callers[p].t,
                (IF callers[p].t \in DOMAIN scans THEN scans[callers[p].t] ELSE 0) + 1)
    /\ UNCHANGED <<storing, fatal, tagInfoCache, enc, dec, fill, chunkVars, bulkVars, facadeVars>>

\* tagInfoCache[t] = info begins   (line 229)
CallerStoreBegin ==
    /\ ~fatal
    /\ \E p \in Callers :
        /\ callers[p].at = "store"
        /\ \/ /\ storing # {}
              /\ fatal' = TRUE
              /\ UNCHANGED <<callers, storing>>
           \/ /\ fatal' = fatal
              /\ storing' = storing \cup {p}
              /\ callers' = [callers EXCEPT ![p].at = "storing"]
    /\ UNCHANGED <<chunkVars, bulkVars, codecVars, facadeVars>>

\* tagInfoCache[t] = info ends   (line 229)
CallerStoreEnd ==
    /\ ~fatal
    /\ \E p \in Callers :
        /\ callers[p].at = "storing"
        /\ \/ /\ storing \ {p} # {}
              /\ fatal' = TRUE
              /\ UNCHANGED <<callers, storing, tagInfoCache>>
           \/ /\ fatal' = fatal
              /\ tagInfoCache' = MapPut(tagInfoCache, callers[p].t, callers[p].info)
              /\ storing' = storing \ {p}
              /\ callers' = [callers EXCEPT ![p].at = "done"]
    /\ UNCHANGED <<scans, enc, dec, fill, chunkVars, bulkVars, facadeVars>>

\* ------------------------------------------------------ specifications
InitBulk ==
    /\ bulk = [op |-> "none", client |-> 1, items |-> <<>>, fails |-> {}]
    /\ dbCalls = <<>>
    /\ bulkErr = NoError

InitCodec ==
    /\ tagInfoCache = EmptyMap
    /\ scans = EmptyMap
    /\ enc = NoEnc
    /\ dec = NoDec
    /\ fill = NoFill

\* The original Client, as NewClient returned it.
InitFacade ==
    /\ clients = <<NewClient(1, "users")>>
    /\ made = <<[by |-> "NewClient", parent |-> 0, name |-> "users"]>>

\* No goroutine has called yet.
InitRace ==
    /\ callers = [p \in Callers |-> [at |-> "idle", t |-> "User", info |-> NoInfo]]
    /\ storing = {}
    /\ fatal = FALSE

Init == InitChunks /\ InitBulk /\ InitCodec /\ InitFacade /\ InitRace

NextChunks == QueryChunksCall \/ QueryChunksRow \/ QueryChunksDone

NextBulk == InsertCall \/ DeleteCall \/ UpdateCall

NextCodec ==
    StructToMapCall \/ FillStructWithCall \/ FillStructWithEncoded \/ FillSliceWithCall

NextFacade ==
    \/ NewClientCall
    \/ ChangeTableCall
    \/ InsertCallUpTo(MaxFacadeItems)
    \/ DeleteCallUpTo(MaxFacadeItems)
    \/ UpdateCallUpTo(MaxFacadeItems)

NextRace ==
    \/ CallerStart
    \/ CallerLookup
    \/ CallerScan
    \/ CallerStoreBegin
    \/ CallerStoreEnd

\* The chunked query, one call of QueryChunks per behaviour.
SpecChunks == Init /\ [][NextChunks]_vars

\* One call of Insert, Delete or Update per behaviour.
SpecBulk == Init /\ [][NextBulk]_vars

\* Any sequence of StructToMap, FillStructWith and FillSliceWith calls.
SpecCodec == Init /\ [][NextCodec]_vars

\* NewClient and ChangeTable calls, and one bulk call on one of the Clients.
SpecFacade == Init /\ [][NextFacade]_vars

\* One first use of the cache by each of MaxCallers goroutines, interleaved.
SpecRace == Init /\ [][NextRace]_vars

\* Every operation of the package.
Next == NextChunks \/ NextBulk \/ NextCodec \/ NextFacade \/ NextRace

Spec == Init /\ [][Next]_vars

\* --------------------------------------------- claims on QueryChunks
\* The query ran to its end on a cursor, no decode or callback error.
Completed == pc = "returned" /\ opened = 1 /\ err = NoError

CeilDiv(n, k) == (n + k - 1) \div k

\* The lengths of the chunk at the successive ForEachChunk invocations.
CallLens == [i \in 1..Len(calls) |-> Len(calls[i].buf)]

\* The rows the cursor yielded between invocation i - 1 and invocation i.
RowsSincePrevious(i) ==
    RowsFromTo((IF i = 1 THEN 0 ELSE calls[i - 1].read) + 1, calls[i].read)

\* C1: a query over N rows with chunk size k and no error invokes the
\* callback exactly ceil(N/k) times (N/k times when k divides N).
C1_CallbackCount ==
    Completed => Len(calls) = CeilDiv(cursor.nRows, parser.ChunkSize)

\* C2: with no error, at every invocation the chunk holds exactly the rows
\* read since the previous invocation, in cursor order, so that the
\* delivered buffers concatenate to the cursor's rows (stated for a chunk
\* that was empty when the query started).
C2_EachRowDeliveredOnce ==
    (opened = 1 /\ err = NoError /\ parser.init = <<>>) =>
        /\ \A i \in 1..Len(calls) : calls[i].buf = RowsSincePrevious(i)
        /\ Completed =>
             Concat([i \in 1..Len(calls) |-> calls[i].buf]) = RowsFromTo(1, cursor.nRows)

\* C3: over N >= 1 rows from an empty chunk and with no error, every
\* invocation but the last sees length k, the last sees N mod k, or k when
\* k divides N; 7 rows with k = 3 give the lengths 3, 3, 1.
C3_ChunkLengths ==
    LET N == cursor.nRows
        k == parser.ChunkSize
    IN  (Completed /\ N >= 1 /\ parser.init = <<>>) =>
            /\ Len(calls) >= 1
            /\ \A i \in 1..(Len(calls) - 1) : CallLens[i] = k
            /\ CallLens[Len(calls)] = (IF N % k = 0 THEN k ELSE N % k)
            /\ (N = 7 /\ k = 3) => CallLens = <<3, 3, 1>>

\* C4: when the cursor yields no row the callback is never invoked and the
\* query returns success, whatever the chunk size and the initial chunk.
C4_ZeroRowsNoCallback ==
    (opened = 1 /\ cursor.nRows = 0 /\ decodeAsSliceOfStructs(parser.Chunk).err = NoError) =>
        /\ calls = <<>>
        /\ pc = "returned" => err = NoError

C4_Witness ==
    /\ pc = "returned"
    /\ opened = 1
    /\ cursor.nRows = 0
    /\ parser.init # <<>>
    /\ parser.ChunkSize > 1
    /\ err = NoError
    /\ calls = <<>>

\* C5: a query that obtained a cursor has closed it when it returns, on
\* every exit path, exactly once; the cursor is open while the loop runs
\* and no row is read from a closed cursor.
C5_CursorClosed ==
    /\ [](/\ closed <= opened
          /\ pc = "returned" => closed = opened
          /\ pc = "loop" => (opened = 1 /\ closed = 0))
    /\ [][rowsRead' # rowsRead => (opened = 1 /\ closed = 0)]_vars

C5_Witness ==
    /\ pc = "returned"
    /\ err = "ForEachChunk"
    /\ rowsRead > 1
    /\ opened = 1
    /\ closed = 1

\* C6: when a decode or the callback fails the query returns that error at
\* once, and the callback has been invoked once per chunk of k rows
\* completed before the error (the failing invocation included when the
\* callback failed).
C6_FailFastCallbackCount ==
    LET k == parser.ChunkSize IN
    /\ (pc = "returned" /\ err = "ScanRows") =>
          /\ Len(calls) = (rowsRead - 1) \div k
          /\ \A i \in 1..Len(calls) : calls[i].read < rowsRead
    /\ (pc = "returned" /\ err = "ForEachChunk") =>
          /\ Len(calls) = CeilDiv(rowsRead, k)
          /\ calls[Len(calls)].read = rowsRead

\* ----------------------------------- claims on Insert, Delete, Update
\* Processing the item at position p of the last bulk call fails: the
\* collaborator's call fails, or (Update) the item cannot be encoded.
ItemFails(p) ==
    \/ p \in bulk.fails
    \/ bulk.op = "Update" /\ bulk.items[p].kind = "other"

ItemError(p) ==
    IF bulk.op = "Update" /\ bulk.items[p].kind = "other"
    THEN StructToMapError ELSE DbError(p)

FailingItems == {p \in 1..Len(bulk.items) : ItemFails(p)}

FirstFailure ==
    IF FailingItems = {} THEN 0
    ELSE CHOOSE p \in FailingItems : \A q \in FailingItems : p <= q

CollaboratorOp ==
    CASE bulk.op = "Insert" -> "Create"
      [] bulk.op = "Delete" -> "Delete"
      [] bulk.op = "Update" -> "Updates"
      [] OTHER -> "none"

\* C7: Insert, Update and Delete take the items one at a time in argument
\* order and stop at the first failure: the error of the first failing
\* item xj is returned, x1..x(j-1) were each sent once, in order, nothing
\* after xj was sent; with no failure every item was sent once and the
\* result is success (Insert of no item: no call, success).
C7_BulkFailFast ==
    bulk.op # "none" =>
        /\ Len(dbCalls) <= Len(bulk.items)
        /\ \A i \in 1..Len(dbCalls) :
              dbCalls[i].op = CollaboratorOp /\ dbCalls[i].arg = bulk.items[i]
        /\ IF FirstFailure = 0
           THEN bulkErr = NoError /\ Len(dbCalls) = Len(bulk.items)
           ELSE /\ bulkErr = ItemError(FirstFailure)
                /\ Len(dbCalls) \in {FirstFailure - 1, FirstFailure}

C7_Witness ==
    /\ bulk.op = "Insert"
    /\ Len(bulk.items) = 3
    /\ bulk.fails = {2, 3}
    /\ bulkErr = DbError(2)
    /\ Len(dbCalls) = 2

AnnWithoutEmail == Struct("User", <<IntV(1), StrV("Ann"), NilPtr("string")>>)

\* C8: the row Update hands to the collaborator never holds "id", and holds
\* the column of a pointer field only when the field is not nil;
\* Update(User{ID:1, Name:"Ann", Email:nil}) sends exactly {"name":"Ann"}.
C8_UpdateRow ==
    bulk.op = "Update" =>
        \A i \in 1..Len(dbCalls) :
            LET item == dbCalls[i].arg
                row  == dbCalls[i].row
            IN  /\ "id" \notin DOMAIN row
                /\ \A j \in 1..NumField(item.type) :
                      LET f == Fields(item.type)[j] IN
                      (f.ptr /\ f.tag # "" /\ f.tag \in DOMAIN row) => ~item.fields[j].nil
                /\ item = AnnWithoutEmail => row = [c \in {"name"} |-> StrV("Ann")]

C8_Witness ==
    /\ bulk.op = "Update"
    /\ Len(dbCalls) = 2
    /\ dbCalls[1].arg = AnnWithoutEmail
    /\ dbCalls[1].row = [c \in {"name"} |-> StrV("Ann")]
    /\ "email" \in DOMAIN dbCalls[2].row
    /\ bulkErr = NoError

\* ------------------------------------------------ claims on the codec
AllTaggedPresent(T, fs) ==
    \A j \in 1..NumField(T) : Fields(T)[j].tag # "" => ~(fs[j].ptr /\ fs[j].nil)

\* The last FillStructWith decoded the map of the last StructToMap into a
\* new struct of the same type.
DecodedTheEncoding ==
    /\ enc.done
    /\ enc.err = NoError
    /\ dec.done
    /\ dec.row = enc.m
    /\ dec.entity = StructPtr(enc.obj.type, ZeroStruct(enc.obj.type))

\* C9: for every record r whose tagged fields are all present, decoding
\* StructToMap(r) into a new record of the same type succeeds and gives a
\* record equal to r.
C9_RoundTrip ==
    (DecodedTheEncoding /\ AllTaggedPresent(enc.obj.type, enc.obj.fields)) =>
        /\ dec.err = NoError
        /\ dec.after = enc.obj.fields

\* The columns of a row that the descriptor of T does not know.
UnknownColumns(T, row) == {c \in DOMAIN row : c \notin DOMAIN getTagNames(T).Index}

\* Field j (from 1) of T is the field of a column of the row that the
\* descriptor knows.
FieldOfKnownColumn(T, row, j) ==
    \E c \in DOMAIN row \ UnknownColumns(T, row) : getTagNames(T).Index[c] = j - 1

\* C10: decoding a row with a column the descriptor does not hold fails, with
\* an error or a fault, and that column's value is written to no field.
C10_UnknownColumnRejected ==
    (dec.done /\ dec.entity.kind = "ptr" /\ UnknownColumns(dec.entity.type, dec.row) # {}) =>
        /\ dec.err # NoError
        /\ \A j \in 1..NumField(dec.entity.type) :
              ~FieldOfKnownColumn(dec.entity.type, dec.row, j)
                  => dec.after[j] = dec.entity.fields[j]

\* The column names of the descriptor of T.
DescriptorColumns(T) == DOMAIN getTagNames(T).Index

\* C11: a field without a tag is left out of the encoding: the keys of
\* StructToMap(r) are all column names of the type's descriptor, so that no
\* entry is made under any other key, the empty string included.
C11_KeysAreDescriptorColumns ==
    (enc.done /\ enc.err = NoError) => DOMAIN enc.m \subseteq DescriptorColumns(enc.obj.type)

\* C12: in StructToMap(r) a tagged pointer field that is nil has no key, one
\* that is not nil has its column mapped to the value it points to, and a
\* tagged field that is no pointer always has its column mapped to its value.
C12_EncodeTaggedFields ==
    (enc.done /\ enc.err = NoError) =>
        \A j \in 1..NumField(enc.obj.type) :
            LET f == Fields(enc.obj.type)[j]
                v == enc.obj.fields[j]
            IN  f.tag # "" =>
                    IF f.ptr /\ v.nil
                    THEN f.tag \notin DOMAIN enc.m
                    ELSE /\ f.tag \in DOMAIN enc.m
                         /\ enc.m[f.tag] = [kind |-> v.kind, ptr |-> FALSE, nil |-> FALSE,
                                            i |-> v.i, s |-> v.s]

C12_Witness ==
    /\ enc.done
    /\ enc.err = NoError
    /\ enc.obj = Struct("User", <<IntV(1), StrV(""), PtrTo(StrV("Ann"))>>)
    /\ enc.m = [c \in {"id", "name", "email"} |->
                   CASE c = "id" -> IntV(1) [] c = "name" -> StrV("") [] c = "email" -> StrV("Ann")]

\* C13: over any sequence of StructToMap, FillStructWith and FillSliceWith
\* calls getTagNames runs at most once per type, the cache holds for each
\* type it knows what a scan of the type gives, and an entry once stored is
\* neither changed nor removed, nor is its type scanned again.
C13_CacheIdempotent ==
    /\ [](/\ DOMAIN scans = DOMAIN tagInfoCache
          /\ \A T \in DOMAIN tagInfoCache :
                scans[T] = 1 /\ tagInfoCache[T] = getTagNames(T))
    /\ [][\A T \in DOMAIN tagInfoCache :
             /\ T \in DOMAIN tagInfoCache'
             /\ tagInfoCache'[T] = tagInfoCache[T]
             /\ scans'[T] = scans[T]]_vars

C13_Witness ==
    /\ enc.done
    /\ enc.obj.type = "User"
    /\ dec.done
    /\ dec.entity.type = "User"
    /\ DOMAIN tagInfoCache = {"User", "Note", "Empty"}
    /\ scans["User"] = 1

\* The last FillStructWith was given a pointer to a struct and a row whose
\* columns the descriptor of the struct's type all holds.
DecodedKnownColumns ==
    /\ dec.done
    /\ dec.entity.kind = "ptr"
    /\ UnknownColumns(dec.entity.type, dec.row) = {}

\* C14: decoding a row whose columns are all known changes only the fields
\* whose columns are in the row; {"id":1,"name":"Ann"} decoded into a zero
\* User gives {1, "Ann", nil}.
C14_DecodeFrame ==
    DecodedKnownColumns =>
        /\ \A j \in 1..NumField(dec.entity.type) :
              ~FieldOfKnownColumn(dec.entity.type, dec.row, j)
                  => dec.after[j] = dec.entity.fields[j]
        /\ (/\ dec.entity = StructPtr("User", ZeroStruct("User"))
            /\ dec.row = [c \in {"id", "name"} |-> IF c = "id" THEN IntV(1) ELSE StrV("Ann")])
              => (dec.err = NoError /\ dec.after = <<IntV(1), StrV("Ann"), NilPtr("string")>>)

C14_Witness ==
    /\ dec.done
    /\ dec.entity = StructPtr("User", <<IntV(0), StrV("Bob"), PtrTo(StrV("Bob"))>>)
    /\ dec.row = [c \in {"id"} |-> IntV(1)]
    /\ dec.err = NoError
    /\ dec.after = <<IntV(1), StrV("Bob"), PtrTo(StrV("Bob"))>>

\* The field (from 1) and the field type of a known column c of T.
FieldOfColumn(T, c) == getTagNames(T).Index[c] + 1

FieldTypeOfColumn(T, c) ==
    [kind |-> Fields(T)[FieldOfColumn(T, c)].kind, ptr |-> Fields(T)[FieldOfColumn(T, c)].ptr]

\* The columns of the last decoded row whose value does not convert to the
\* type of the column's field.
MismatchedColumns ==
    {c \in DOMAIN dec.row :
        ~ConvertibleTo(TypeOf(dec.row[c]), FieldTypeOfColumn(dec.entity.type, c))}

C16_ChunkNeverExceedsK ==
    (opened = 1 /\ Len(parser.init) <= parser.ChunkSize) =>
        /\ Len(slice) <= parser.ChunkSize
        /\ Len(target) <= parser.ChunkSize
        /\ \A i \in 1..Len(calls) : Len(calls[i].buf) <= parser.ChunkSize

\* C17: a chunk of the wrong shape is reported before any I/O: QueryChunks
\* returns the shape error without having run a query or opened a cursor.
C17_ShapeErrorBeforeIO ==
    (pc = "returned" /\ decodeAsSliceOfStructs(parser.Chunk).err # NoError) =>
        /\ err = decodeAsSliceOfStructs(parser.Chunk).err
        /\ queries = 0
        /\ opened = 0

\* C18: with a chunk that holds L > k elements when the query starts, the
\* elements below L are reused, not appended to, and every callback on a
\* full chunk sees exactly the k rows of the chunk: length k, no element
\* left from before the query.
C18_PrepopulatedChunk ==
    (opened = 1 /\ Len(parser.init) > parser.ChunkSize) =>
        /\ rowsRead <= parser.ChunkSize => Len(slice) = Len(parser.init)
        /\ \A i \in 1..Len(calls) :
              /\ \A j \in 1..Len(calls[i].buf) : calls[i].buf[j] > 0
              /\ calls[i].read = i * parser.ChunkSize
                    => Len(calls[i].buf) = parser.ChunkSize

\* C15: ChangeTable(name) returns a Client with the given table name on the
\* connection of the Client it was called on, and changes no existing
\* Client; every operation on a Client goes to the table the Client was
\* made with, whatever ChangeTable calls were made.
C15_ChangeTableFrame ==
    /\ [](/\ Len(made) = Len(clients)
          /\ \A i \in 1..Len(clients) :
                /\ clients[i].tableName = made[i].name
                /\ made[i].by = "ChangeTable" => clients[i].db = clients[made[i].parent].db
          /\ bulk.op # "none" =>
                \A k \in 1..Len(dbCalls) : dbCalls[k].table = made[bulk.client].name)
    /\ [][\A i \in 1..Len(clients) : i <= Len(clients') /\ clients'[i] = clients[i]]_vars

C15_Witness ==
    /\ Len(clients) = 3
    /\ made[2] = [by |-> "ChangeTable", parent |-> 1, name |-> "posts"]
    /\ made[3] = [by |-> "NewClient", parent |-> 0, name |-> "posts"]
    /\ clients[2] = [db |-> 1, tableName |-> "posts"]
    /\ clients[3].db = 2
    /\ bulk.op = "Insert"
    /\ bulk.client = 1
    /\ Len(dbCalls) = 1
    /\ dbCalls[1].table = "users"

\* C20: however the lookups and stores of concurrent callers interleave,
\* no caller is lost: the process is not ended, every caller that is past
\* the lookup has the descriptor a sequential scan of its type gives, and
\* every entry of the cache is that descriptor of its type.
C20_ConcurrentFirstUse ==
    /\ ~fatal
    /\ \A p \in Callers :
          callers[p].at \in {"store", "storing", "done"} =>
              callers[p].info = getTagNames(callers[p].t)
    /\ \A t \in DOMAIN tagInfoCache : tagInfoCache[t] = getTagNames(t)

====
